---- MODULE Spec2Model ----
(***************************************************************************)
(* Model of the api-ingestion pipeline: the JWT token authorizer           *)
(* (src/python/lambda/authorizer.py), the ingest handler                   *)
(* (src/python/lambda/ingest_handler.py), the API Gateway wiring that      *)
(* puts the first in front of the second (src/python/cdk/                  *)
(* data_ingestion_stack.py), the weekly summary                            *)
(* (src/python/lambda/weekly_summary_handler.py) and the token generator   *)
(* (generate_jwt.py).                                                      *)
(*                                                                         *)
(* Conventions.  A Python dict is a TLA+ function from its keys to its     *)
(* values; d.get(k, default) is dict_get.  A Python exception is a result  *)
(* record that names the exception class.  The clock `now` counts minutes; *)
(* every time in the model (exp, iat, timestamp, cache TTL) is in the same *)
(* unit.                                                                   *)
(***************************************************************************)
EXTENDS Integers, Sequences, FiniteSets, TLC

VARIABLES
    now,               \* the wall clock
    ssmValue,          \* the JWT secret currently stored in the SSM parameter
    ssmCalls,          \* ssm.get_parameter calls made by the authorizer process
    jwt_secret_cache,  \* authorizer.py: module global _jwt_secret_cache
    lastAuth,          \* the last authorizer invocation: its event and outcome
    authCache,         \* API Gateway: cached authorizer results, by header
    workers,           \* ingest handler invocations in flight, one per worker
    table,             \* the DynamoDB table: a set of items, keyed (id, timestamp)
    uuids,             \* number of uuid4() values handed out so far
    invocations,       \* number of ingest invocations started so far
    okPuts,            \* number of put_item calls the table accepted
    agg,               \* the weekly-summary invocation in flight
    bucket,            \* the S3 bucket: a set of objects, keyed by Key
    runs,              \* number of weekly-summary invocations started so far
    lastReport,        \* per end date: the summary last uploaded, the uploads made
    cli,               \* the last run of the generate_jwt.py command line
    top                \* a call of get_top_items: its arguments and its result

vars == <<now, ssmValue, ssmCalls, jwt_secret_cache, lastAuth, authCache,
          workers, table, uuids, invocations, okPuts, agg, bucket, runs, lastReport,
          cli, top>>

authVars == <<ssmValue, ssmCalls, jwt_secret_cache, lastAuth>>
ingestVars == <<workers, table, uuids, invocations, okPuts>>
aggVars == <<agg, bucket, runs, lastReport>>
toolVars == <<cli, top>>

(***************************************************************************)
(* Bounds of the model.                                                    *)
(***************************************************************************)
MaxTime == 6
MaxIngestTime == 2
GatewayTickStep == 3
MaxSsmCalls == 2
MaxInvocations == 2
MaxRuns == 2
PageLimit == 2
AggTickStep == 720
MaxAggTicks == 2
MaxLimit == 3
MaxCount == 5
MaxExpiry == 2

(***************************************************************************)
(* Python helpers.                                                         *)
(***************************************************************************)
EmptyDict == [k \in {} |-> ""]

None == "None"

dict_get(d, k, default) == IF k \in DOMAIN d THEN d[k] ELSE default

(***************************************************************************)
(* Tokens.  A token is the key it was signed with, its form and its claims *)
(* (the payload).  form "garbage" is a string that is no JWT at all;       *)
(* form "badclaims" is a well-signed JWT whose exp claim is not a number.  *)
(***************************************************************************)
Secrets == {"k1", "k2"}

FarFuture == MaxTime + 1

tokShort ==
    [signedWith |-> "k1", form |-> "jwt",
     payload |-> [sub |-> "u1", email |-> "a@x", iat |-> 0, exp |-> 1]]

tokLong ==
    [signedWith |-> "k1", form |-> "jwt",
     payload |-> [sub |-> "u2", iat |-> 0, exp |-> FarFuture]]

tokRotated ==
    [signedWith |-> "k2", form |-> "jwt",
     payload |-> [sub |-> "u1", email |-> "a@x", scope |-> "write",
                  iat |-> 0, exp |-> FarFuture]]

tokForged ==
    [signedWith |-> "kX", form |-> "jwt",
     payload |-> [sub |-> "u1", iat |-> 0, exp |-> FarFuture]]

tokBadClaims ==
    [signedWith |-> "k1", form |-> "badclaims",
     payload |-> [sub |-> "u1", iat |-> 0]]

tokGarbage ==
    [signedWith |-> "kX", form |-> "garbage", payload |-> EmptyDict]

Tokens == {tokShort, tokLong, tokRotated, tokForged, tokBadClaims, tokGarbage}

(***************************************************************************)
(* An Authorization header is its leading characters and the rest.         *)
(* "Bearer " is the only lead of seven characters that startswith accepts. *)
(***************************************************************************)
Bearer(tok) == [lead |-> "Bearer ", rest |-> tok]

EmptyHeader == [lead |-> "", rest |-> tokGarbage]

Headers ==
    {Bearer(t) : t \in Tokens}
    \cup {[lead |-> "Basic ", rest |-> tokLong],
          [lead |-> "bearer ", rest |-> tokLong],
          [lead |-> "Bearer", rest |-> tokLong],
          EmptyHeader}

\* The headers that requests to POST /data come with in the model.
GatewayHeaders ==
    {Bearer(tokShort), Bearer(tokLong), Bearer(tokForged),
     [lead |-> "Basic ", rest |-> tokLong]}

MethodArn == "arn:POST/data"

AuthorizerEvents ==
    {[authorizationToken |-> h, methodArn |-> MethodArn] : h \in Headers}
    \cup {[methodArn |-> MethodArn]}
    \cup {[authorizationToken |-> Bearer(tokLong)]}

\* jwt.decode as it would be with verify_exp off: exp is not looked at.
jwt_decode_no_verify_exp(token, key, t) ==
    IF token.form = "garbage"
    THEN [raised |-> "DecodeError", payload |-> EmptyDict]
    ELSE IF token.signedWith # key
    THEN [raised |-> "InvalidSignatureError", payload |-> EmptyDict]
    ELSE IF token.form = "badclaims"
    THEN [raised |-> "DecodeError", payload |-> EmptyDict]
    ELSE [raised |-> None, payload |-> token.payload]

(***************************************************************************)
(* jwt.decode(token, key, algorithms=['HS256'], options={verify_exp,       *)
(* verify_iat}) at time t: the payload, or the exception it raises.  Every *)
(* exception is a subclass of jwt.InvalidTokenError.  A token is expired   *)
(* from the minute of its exp on (exp <= t), and a claim that is absent    *)
(* is not checked.                                                         *)
(***************************************************************************)
jwt_decode(token, key, t) ==
    IF token.form = "garbage"
    THEN [raised |-> "DecodeError", payload |-> EmptyDict]
    ELSE IF token.signedWith # key
    THEN [raised |-> "InvalidSignatureError", payload |-> EmptyDict]
    ELSE IF token.form = "badclaims"
    THEN [raised |-> "DecodeError", payload |-> EmptyDict]
    ELSE IF "iat" \in DOMAIN token.payload /\ token.payload.iat > t
    THEN [raised |-> "ImmatureSignatureError", payload |-> EmptyDict]
    ELSE IF "exp" \in DOMAIN token.payload /\ token.payload.exp <= t
    THEN [raised |-> "ExpiredSignatureError", payload |-> EmptyDict]
    ELSE [raised |-> None, payload |-> token.payload]

\* get_jwt_secret without the `is None` test: every call asks the provider.
get_jwt_secret_uncached(cache, ssm, ssmOk) ==
    IF ssmOk
    THEN [raised |-> None, value |-> ssm, cache |-> ssm, calls |-> 1]
    ELSE [raised |-> "ClientError", value |-> None, cache |-> cache, calls |-> 1]

(***************************************************************************)
(* get_jwt_secret(): the cached secret, or a call of ssm.get_parameter     *)
(* that fills the cache when it succeeds (ssmOk) and raises when not.      *)
(***************************************************************************)
get_jwt_secret(cache, ssm, ssmOk) ==
    IF cache = None
    THEN IF ssmOk
         THEN [raised |-> None, value |-> ssm, cache |-> ssm, calls |-> 1]
         ELSE [raised |-> "ClientError", value |-> None, cache |-> cache, calls |-> 1]
    ELSE [raised |-> None, value |-> cache, cache |-> cache, calls |-> 0]

NoPolicy == [none |-> TRUE]

generate_policy(principal_id, effect, resource, context_data) ==
    [principalId |-> principal_id,
     policyDocument |-> [Action |-> "execute-api:Invoke",
                         Effect |-> effect,
                         Resource |-> resource],
     context |-> [userId |-> dict_get(context_data, "sub", ""),
                  email |-> dict_get(context_data, "email", ""),
                  scope |-> dict_get(context_data, "scope", "")]]

\* The prefix test as it would be if it ignored case.
startswith_Bearer_any_case(token) == token.lead \in {"Bearer ", "bearer "}

\* token.startswith('Bearer ')
startswith_Bearer(token) == token.lead = "Bearer "

(***************************************************************************)
(* What the authorizer raises to API Gateway, whatever was caught.         *)
(***************************************************************************)
Unauthorized(cause, secret) ==
    [raised |-> "Unauthorized", policy |-> NoPolicy, cause |-> cause,
     cache |-> secret.cache, calls |-> secret.calls, key |-> secret.value]

NoSecret(cache) == [raised |-> None, value |-> None, cache |-> cache, calls |-> 0]

(***************************************************************************)
(* authorizer.handler(event, context) at time t.                           *)
(***************************************************************************)
authorizer_handler(event, cache, ssm, ssmOk, t) ==
    LET token == dict_get(event, "authorizationToken", EmptyHeader)
        secret == get_jwt_secret(cache, ssm, ssmOk)
        decoded == jwt_decode(token.rest, secret.value, t)
    IN  IF ~startswith_Bearer(token)
        THEN Unauthorized("ValueError", NoSecret(cache))
        ELSE IF secret.raised # None
        THEN Unauthorized(secret.raised, secret)
        ELSE IF decoded.raised # None
        THEN Unauthorized(decoded.raised, secret)
        ELSE IF "methodArn" \notin DOMAIN event
        THEN Unauthorized("KeyError", secret)
        ELSE [raised |-> None,
              policy |-> generate_policy(dict_get(decoded.payload, "sub", "unknown"),
                                         "Allow", event.methodArn, decoded.payload),
              cause |-> None,
              cache |-> secret.cache, calls |-> secret.calls, key |-> secret.value]

NoAuth == [none |-> TRUE]

\* The concurrent execution environments of the ingest Lambda.
Workers == {1, 2}

\* The Lambda service runs an invocation on a free worker; the workers are
\* alike, so the model takes the first.
FreeWorker(ws) == CHOOSE w \in Workers : ws[w].pc = "idle" /\ \A v \in Workers : ws[v].pc = "idle" => w <= v

SomeWorkerFree(ws) == \E w \in Workers : ws[w].pc = "idle"

Idle == [pc |-> "idle"]

\* No weekly-summary invocation is in flight; generate_jwt.py has not run.
AggIdle == [pc |-> "idle"]

NoCli == [pc |-> "idle"]

NoCall == [pc |-> "idle"]

Init ==
    /\ now = 0
    /\ ssmValue = "k1"
    /\ ssmCalls = 0
    /\ jwt_secret_cache = None
    /\ lastAuth = NoAuth
    /\ authCache = [h \in GatewayHeaders |-> NoPolicy]
    /\ workers = [w \in Workers |-> Idle]
    /\ table = {}
    /\ uuids = 0
    /\ invocations = 0
    /\ okPuts = 0
    /\ agg = AggIdle
    /\ bucket = {}
    /\ runs = 0
    /\ lastReport = EmptyDict
    /\ cli = NoCli
    /\ top = NoCall

\* The clock advances by step minutes.
Advance(step, limit) ==
    /\ now < limit
    /\ now' = now + step

\* A minute passes while only the authorizer is observed.
Tick ==
    /\ Advance(1, MaxTime)
    /\ UNCHANGED <<authVars, authCache, ingestVars>>
    /\ UNCHANGED <<aggVars, toolVars>>

RotateSecret ==
    /\ \E s \in Secrets \ {ssmValue} : ssmValue' = s
    /\ UNCHANGED <<now, ssmCalls, jwt_secret_cache, lastAuth, authCache, ingestVars>>
    /\ UNCHANGED <<aggVars, toolVars>>

ColdStart ==
    /\ jwt_secret_cache' = None
    /\ ssmCalls' = 0
    /\ UNCHANGED <<now, ssmValue, lastAuth, authCache, ingestVars>>
    /\ UNCHANGED <<aggVars, toolVars>>

AuthorizerInvoke ==
    \E event \in AuthorizerEvents, ssmOk \in BOOLEAN :
        LET r == authorizer_handler(event, jwt_secret_cache, ssmValue, ssmOk, now)
        IN  /\ ssmOk \/ ssmCalls < MaxSsmCalls
            /\ jwt_secret_cache' = r.cache
            /\ ssmCalls' = ssmCalls + r.calls
            /\ lastAuth' = [event |-> event, at |-> now, ssm |-> ssmValue,
                            before |-> jwt_secret_cache, result |-> r]
            /\ UNCHANGED <<now, ssmValue, authCache, ingestVars>>
            /\ UNCHANGED <<aggVars, toolVars>>

NextAuth == Tick \/ RotateSecret \/ ColdStart \/ AuthorizerInvoke

SpecAuth == Init /\ [][NextAuth]_vars

(***************************************************************************)
(* The ingest handler.  A request body is None or a str; a str is          *)
(* represented by the document it spells: t is "invalid" for text that is  *)
(* not JSON, else the type of the JSON value, d its members when it is an  *)
(* object and l its elements when it is an array.  Member values are       *)
(* strings that stand for the JSON value.                                  *)
(***************************************************************************)
JInvalid == [t |-> "invalid", d |-> EmptyDict, l |-> <<>>]

JInt == [t |-> "int", d |-> EmptyDict, l |-> <<>>]

JNull == [t |-> "NoneType", d |-> EmptyDict, l |-> <<>>]

JList(l) == [t |-> "list", d |-> EmptyDict, l |-> l]

JDict(d) == [t |-> "dict", d |-> d, l |-> <<>>]

PyNone == [py |-> "NoneType"]

PyStr(doc) == [py |-> "str", doc |-> doc]

NoValue == [t |-> "none", d |-> EmptyDict, l |-> <<>>]

\* json.loads(s): the value, JSONDecodeError for text that is not JSON,
\* TypeError for an argument that is not a str.
json_loads(s) ==
    IF s.py # "str"
    THEN [raised |-> "TypeError", value |-> NoValue]
    ELSE IF s.doc.t = "invalid"
    THEN [raised |-> "JSONDecodeError", value |-> NoValue]
    ELSE [raised |-> None, value |-> s.doc]

\* Python's `k in v`: key membership for a dict, element membership for a
\* list, TypeError for a value that is not iterable.
py_in(k, v) ==
    IF v.t = "dict"
    THEN [raised |-> None, value |-> k \in DOMAIN v.d]
    ELSE IF v.t = "list"
    THEN [raised |-> None, value |-> \E i \in DOMAIN v.l : v.l[i] = k]
    ELSE [raised |-> "TypeError", value |-> FALSE]

\* An identifier made once, when the module is loaded, and used for every item.
uuid4_fixed(n) == 1

\* str(uuid.uuid4()): a value no earlier call returned; n counts the calls.
uuid4(n) == n + 1

create_response(status_code, body) ==
    [statusCode |-> status_code,
     headers |-> [ContentType |-> "application/json"],
     body |-> body]

NoItem == [none |-> TRUE]

NoResponse == [none |-> TRUE]

Finished(response) == [pc |-> "done", item |-> NoItem, response |-> response]

\* The item as it would be if the authenticated subject were written over
\* the userId of the body.
build_item_overwrite(body, user_id_from_token, user_email, item_id, t) ==
    [id |-> item_id,
     timestamp |-> t,
     userId |-> user_id_from_token,
     eventType |-> dict_get(body.d, "eventType", "unknown"),
     data |-> body.d.data,
     createdAt |-> t,
     authenticatedUser |-> user_id_from_token,
     userEmail |-> user_email]

\* The item as it would be if the userId of the body served as its id.
build_item_id_of_user(body, user_id_from_token, user_email, item_id, t) ==
    [id |-> IF body.d.userId = "u1" THEN 1 ELSE 2,
     timestamp |-> t,
     userId |-> body.d.userId,
     eventType |-> dict_get(body.d, "eventType", "unknown"),
     data |-> body.d.data,
     createdAt |-> t,
     authenticatedUser |-> user_id_from_token,
     userEmail |-> user_email]

\* The DynamoDB item of lines 70-80.
build_item(body, user_id_from_token, user_email, item_id, t) ==
    [id |-> item_id,
     timestamp |-> t,
     userId |-> body.d.userId,
     eventType |-> dict_get(body.d, "eventType", "unknown"),
     data |-> body.d.data,
     createdAt |-> t,
     authenticatedUser |-> user_id_from_token,
     userEmail |-> user_email]

(***************************************************************************)
(* ingest_handler.handler, lines 40-80: everything before the put.  The    *)
(* result is where the handler stands: done with a response, or at the put *)
(* with the item prepared.  n counts the uuid4() calls made before, t is   *)
(* the clock.                                                              *)
(***************************************************************************)
ingest_prepare(event, n, t) ==
    LET request_context == dict_get(event, "requestContext", EmptyDict)
        authorizer_context == dict_get(request_context, "authorizer", EmptyDict)
        user_id_from_token == dict_get(authorizer_context, "userId", "unknown")
        user_email == dict_get(authorizer_context, "email", "")
        parsed == json_loads(dict_get(event, "body", PyStr(JDict(EmptyDict))))
        body == parsed.value
        has_user == py_in("userId", body)
        has_data == py_in("data", body)
        internal == create_response(500, [error |-> "Internal server error"])
    IN  IF PyNone \in {event, request_context, authorizer_context}
        THEN Finished(internal)
        ELSE IF parsed.raised = "JSONDecodeError"
        THEN Finished(create_response(400, [error |-> "Invalid JSON format"]))
        ELSE IF parsed.raised # None
        THEN Finished(internal)
        ELSE IF has_user.raised # None
        THEN Finished(internal)
        ELSE IF ~has_user.value \/ ~has_data.value
        THEN Finished(create_response(400,
                          [error |-> "Missing required fields: userId, data"]))
        ELSE IF body.t # "dict"
        THEN Finished(internal)
        ELSE [pc |-> "put",
              item |-> build_item(body, user_id_from_token, user_email, uuid4(n), t),
              response |-> NoResponse]

\* table.put_item(Item=item) on a table keyed by (id, timestamp): the item
\* replaces any item that has its key.
put_item(tbl, item) ==
    {r \in tbl : r.id # item.id \/ r.timestamp # item.timestamp} \cup {item}

PutOutcomes == {"ok", "ClientError", "Exception"}

\* The response as it would be if the ClientError were logged and not
\* returned: the handler falls through to the success response.
ingest_respond_swallow(item, outcome) ==
    IF outcome \in {"ok", "ClientError"}
    THEN create_response(200, [message |-> "Data ingested successfully",
                               id |-> item.id,
                               timestamp |-> item.timestamp])
    ELSE create_response(500, [error |-> "Internal server error"])

\* The handler as it would be if it tried the put again after a ClientError.
after_put_retry(outcome) == IF outcome = "ClientError" THEN "put" ELSE "done"

\* The handler as it would be without the outer `except Exception`: what is
\* not a ClientError leaves the handler as an exception.
ingest_respond_propagate(item, outcome) ==
    IF outcome = "ok"
    THEN create_response(200, [message |-> "Data ingested successfully",
                               id |-> item.id,
                               timestamp |-> item.timestamp])
    ELSE IF outcome = "ClientError"
    THEN create_response(500, [error |-> "Database error", details |-> "ClientError"])
    ELSE [raised |-> "Exception"]

(***************************************************************************)
(* ingest_handler.handler, lines 82-102: the response after the put.  The  *)
(* table accepts the put (ok), or put_item raises a ClientError, or it     *)
(* raises another exception (a float in the payload that boto3 will not    *)
(* serialise, no connection to the endpoint); a put that raises stores     *)
(* nothing.                                                                *)
(***************************************************************************)
ingest_respond(item, outcome) ==
    IF outcome = "ok"
    THEN create_response(200, [message |-> "Data ingested successfully",
                               id |-> item.id,
                               timestamp |-> item.timestamp])
    ELSE IF outcome = "ClientError"
    THEN create_response(500, [error |-> "Database error", details |-> "ClientError"])
    ELSE create_response(500, [error |-> "Internal server error"])

\* Where the handler stands after put_item: it returns on every path.
after_put(outcome) == "done"

\* A worker that has taken an event: where its handler stands (h), and what
\* the model remembers of the invocation: the event, the header the request
\* came with (via), when it started, the put_item calls made and whether the
\* table accepted one.
Invocation(h, event, via, t) ==
    [pc |-> h.pc, item |-> h.item, response |-> h.response,
     event |-> event, via |-> via, startedAt |-> t, puts |-> 0, putOk |-> FALSE]

Direct == [lead |-> "direct", rest |-> tokGarbage]

AuthorizerContext == [userId |-> "u1", email |-> "a@x", scope |-> ""]

Documents ==
    {JInvalid, JInt, JNull, JList(<<>>), JList(<<"userId", "data">>),
     JDict(EmptyDict),
     JDict([userId |-> "u1"]),
     JDict([data |-> "{x:1}"]),
     JDict([userId |-> "u2", data |-> "{x:1}"]),
     JDict([userId |-> "u1", eventType |-> "click", data |-> "{x:1}"])}

Bodies == {PyNone} \cup {PyStr(doc) : doc \in Documents}

IngestEvents ==
    {[requestContext |-> [authorizer |-> AuthorizerContext], body |-> b] :
        b \in {PyStr(doc) : doc \in {d \in Documents : {"userId", "data"} \subseteq DOMAIN d.d}}}
    \cup {[body |-> b] : b \in Bodies}
    \cup {[requestContext |-> EmptyDict], [requestContext |-> PyNone], PyNone}

\* The Lambda service hands an event, one of `events`, to the handler on a
\* free worker.
IngestInvokeOf(events) ==
    \E event \in events :
        LET started == Invocation(ingest_prepare(event, uuids, now), event, Direct, now)
            w == FreeWorker(workers)
        IN  /\ SomeWorkerFree(workers)
            /\ invocations < MaxInvocations
            /\ invocations' = invocations + 1
            /\ workers' = [workers EXCEPT ![w] = started]
            /\ uuids' = IF started.pc = "put" THEN uuids + 1 ELSE uuids
            /\ UNCHANGED <<now, authVars, authCache, table, okPuts>>
            /\ UNCHANGED <<aggVars, toolVars>>

IngestInvoke == IngestInvokeOf(IngestEvents)

IngestPut ==
    \E w \in Workers, outcome \in PutOutcomes :
        /\ workers[w].pc = "put"
        /\ workers' = [workers EXCEPT ![w] =
                           [@ EXCEPT !.pc = after_put(outcome),
                                     !.response = ingest_respond(workers[w].item, outcome),
                                     !.puts = @ + 1,
                                     !.putOk = @ \/ outcome = "ok"]]
        /\ table' = IF outcome = "ok" THEN put_item(table, workers[w].item) ELSE table
        /\ okPuts' = IF outcome = "ok" THEN okPuts + 1 ELSE okPuts
        /\ UNCHANGED <<now, authVars, authCache, uuids, invocations>>
        /\ UNCHANGED <<aggVars, toolVars>>

\* The response has gone back to the caller; the worker is free again.
IngestReturn ==
    \E w \in Workers :
        /\ workers[w].pc = "done"
        /\ workers' = [workers EXCEPT ![w] = Idle]
        /\ UNCHANGED <<now, authVars, authCache, table, uuids, invocations, okPuts>>
        /\ UNCHANGED <<aggVars, toolVars>>

\* A minute passes while only the ingest handler is observed.
IngestTick ==
    /\ Advance(1, MaxIngestTime)
    /\ UNCHANGED <<authVars, authCache, ingestVars>>
    /\ UNCHANGED <<aggVars, toolVars>>

NextIngest == IngestTick \/ IngestInvoke \/ IngestPut \/ IngestReturn

SpecIngest == Init /\ [][NextIngest]_vars
(***************************************************************************)
(* The write path: API Gateway's POST /data method, with the token         *)
(* authorizer (results cached for results_cache_ttl, keyed by the          *)
(* Authorization header), the request validator and the proxy integration  *)
(* with the ingest Lambda.                                                 *)
(***************************************************************************)
results_cache_ttl == 5

\* The DataIngestionModel schema: an object with userId and data.
request_validator(body) ==
    /\ body.py = "str"
    /\ body.doc.t = "dict"
    /\ {"userId", "data"} \subseteq DOMAIN body.doc.d

GatewayBodies ==
    {PyStr(JInvalid),
     PyStr(JDict([userId |-> "u1"])),
     PyStr(JDict([userId |-> "u2", data |-> "{x:1}"])),
     PyStr(JDict([userId |-> "u1", eventType |-> "click", data |-> "{x:1}"]))}

\* The authorizer result API Gateway acts on for a header: the cached one
\* while its TTL lasts, else the one the authorizer Lambda gives now.
gateway_authorize(header, cached, fresh, t) ==
    IF cached # NoPolicy /\ t < cached.expires
    THEN [hit |-> TRUE, policy |-> cached.policy]
    ELSE [hit |-> FALSE, policy |-> fresh.policy]

proxy_event(policy, body) ==
    [requestContext |->
        [authorizer |-> [principalId |-> policy.principalId,
                         userId |-> policy.context.userId,
                         email |-> policy.context.email,
                         scope |-> policy.context.scope]],
     body |-> body]

GatewayRequest ==
    \E header \in GatewayHeaders, body \in GatewayBodies, ssmOk \in BOOLEAN :
        LET fresh == authorizer_handler(
                         [authorizationToken |-> header, methodArn |-> MethodArn],
                         jwt_secret_cache, ssmValue, ssmOk, now)
            auth == gateway_authorize(header, authCache[header], fresh, now)
            allowed == auth.policy # NoPolicy
                       /\ auth.policy.policyDocument.Effect = "Allow"
            event == proxy_event(auth.policy, body)
            started == Invocation(ingest_prepare(event, uuids, now), event, header, now)
            w == FreeWorker(workers)
        IN  /\ SomeWorkerFree(workers)
            /\ invocations < MaxInvocations
            /\ IF auth.hit
               THEN ssmOk /\ UNCHANGED <<jwt_secret_cache, ssmCalls, authCache>>
               ELSE /\ ssmOk \/ ssmCalls < MaxSsmCalls
                    /\ jwt_secret_cache' = fresh.cache
                    /\ ssmCalls' = ssmCalls + fresh.calls
                    /\ authCache' = IF fresh.raised = None
                                    THEN [authCache EXCEPT ![header] =
                                             [policy |-> fresh.policy,
                                              expires |-> now + results_cache_ttl]]
                                    ELSE authCache
            /\ IF allowed /\ request_validator(body)
               THEN /\ workers' = [workers EXCEPT ![w] = started]
                    /\ invocations' = invocations + 1
                    /\ uuids' = IF started.pc = "put" THEN uuids + 1 ELSE uuids
               ELSE UNCHANGED <<workers, invocations, uuids>>
            /\ UNCHANGED <<now, ssmValue, lastAuth, table, okPuts>>
            /\ UNCHANGED <<aggVars, toolVars>>

\* Time passes on the write path; API Gateway drops the authorizer results
\* whose TTL is over.
GatewayTick ==
    /\ Advance(GatewayTickStep, MaxTime)
    /\ authCache' = [h \in GatewayHeaders |->
                        IF authCache[h] # NoPolicy /\ authCache[h].expires <= now'
                        THEN NoPolicy ELSE authCache[h]]
    /\ UNCHANGED <<authVars, ingestVars>>
    /\ UNCHANGED <<aggVars, toolVars>>

Next ==
    \/ GatewayTick
    \/ GatewayRequest
    \/ IngestPut
    \/ IngestReturn

Spec == Init /\ [][Next]_vars
(***************************************************************************)
(* Properties of the token authorizer, checked under SpecAuth.             *)
(***************************************************************************)
AuthHeader == dict_get(lastAuth.event, "authorizationToken", EmptyHeader)

\* exp strictly in the past at time t
TokenExpiredAt(tok, t) == "exp" \in DOMAIN tok.payload /\ tok.payload.exp < t

\* The key a verification would check the signature against: the cached
\* secret when there is one, else the one the provider holds.
VerifierKey == IF lastAuth.before # None THEN lastAuth.before ELSE lastAuth.ssm

\* C1: a Bearer token that is expired, badly signed or malformed always
\* ends in the one outcome 'Unauthorized', with no policy (Allow or Deny)
\* returned, whatever the cause of the failure.
C1_FailuresAreUnauthorized ==
    (/\ lastAuth # NoAuth
     /\ AuthHeader.lead = "Bearer "
     /\ \/ TokenExpiredAt(AuthHeader.rest, lastAuth.at)
        \/ AuthHeader.rest.signedWith # VerifierKey
        \/ AuthHeader.rest.form # "jwt")
    => /\ lastAuth.result.raised = "Unauthorized"
       /\ lastAuth.result.policy = NoPolicy

\* C1 witness: an expired, well-signed token has been presented and refused.
C1_Witness ==
    /\ lastAuth # NoAuth
    /\ AuthHeader.lead = "Bearer "
    /\ TokenExpiredAt(AuthHeader.rest, lastAuth.at)
    /\ AuthHeader.rest.signedWith = VerifierKey
    /\ lastAuth.result.cause = "ExpiredSignatureError"
    /\ lastAuth.result.raised = "Unauthorized"

\* C3 as stated: a header without the 'Bearer ' prefix is rejected with
\* the MalformedCredential outcome, an outcome other than Unauthorized.
C3_MalformedCredentialOutcome ==
    (lastAuth # NoAuth /\ AuthHeader.lead # "Bearer ")
    => lastAuth.result.raised = "MalformedCredential"

\* C3 amended: a header without the 'Bearer ' prefix (an empty or absent
\* one included) is rejected with the same 'Unauthorized' outcome as every
\* other failure; the ValueError that tells it apart is only logged, and
\* the secret is not fetched for it.
C3_NoPrefixIsUnauthorized ==
    (lastAuth # NoAuth /\ AuthHeader.lead # "Bearer ")
    => /\ lastAuth.result.raised = "Unauthorized"
       /\ lastAuth.result.policy = NoPolicy
       /\ lastAuth.result.cause = "ValueError"
       /\ lastAuth.result.calls = 0

\* C3 witness: an event without an authorizationToken has been refused.
C3_Witness ==
    /\ lastAuth # NoAuth
    /\ "authorizationToken" \notin DOMAIN lastAuth.event
    /\ lastAuth.result.raised = "Unauthorized"
    /\ lastAuth.result.cause = "ValueError"

\* C4 as stated: in one process the Secret Provider is called once.
C4_ProviderCalledOnce == ssmCalls <= 1

\* C4 amended: in one process at most one call of the Secret Provider
\* succeeds: once the secret is cached, no step calls the provider again or
\* changes the cached value until the process restarts, and every
\* verification uses the cached value, so a rotated secret is not used
\* before a restart; a call that fails caches nothing and the next
\* verification calls the provider again.
C4_CachedSecretIsFinal ==
    [][jwt_secret_cache # None =>
        \/ /\ jwt_secret_cache' = jwt_secret_cache
           /\ ssmCalls' = ssmCalls
           /\ lastAuth' # lastAuth =>
                  lastAuth'.result.key \in {jwt_secret_cache, None}
        \/ /\ jwt_secret_cache' = None
           /\ ssmCalls' = 0]_vars

\* C4 witness: after a rotation in the provider, a token signed with the
\* old secret has been verified against the cached value, after a failed
\* call of the provider earlier in the same process.
C4_Witness ==
    /\ lastAuth # NoAuth
    /\ lastAuth.before # None
    /\ lastAuth.ssm # lastAuth.before
    /\ lastAuth.result.raised = None
    /\ lastAuth.result.key = lastAuth.before
    /\ ssmCalls = 2

(***************************************************************************)
(* Properties of the ingest handler, checked under SpecIngest.             *)
(***************************************************************************)
Done == {w \in Workers : workers[w].pc = "done"}

RawBody(w) == dict_get(workers[w].event, "body", PyStr(JDict(EmptyDict)))

ParsesAsJson(b) == b.py = "str" /\ b.doc.t # "invalid"

IsJsonObject(b) == b.py = "str" /\ b.doc.t = "dict"

HasKey(b, k) == IsJsonObject(b) /\ k \in DOMAIN b.doc.d

MissingField == "Missing required fields: userId, data"

InvalidPayload == "Invalid JSON format"

ErrorOf(w) == dict_get(workers[w].response.body, "error", "")

\* C5: a body that parses as JSON but lacks userId or data gets the
\* MissingField rejection (400), and no put is made.
C5_MissingFieldRejected ==
    \A w \in Done :
        (ParsesAsJson(RawBody(w))
         /\ (~HasKey(RawBody(w), "userId") \/ ~HasKey(RawBody(w), "data")))
        => /\ workers[w].response.statusCode = 400
           /\ ErrorOf(w) = MissingField
           /\ workers[w].puts = 0

\* C6: a body that is no JSON object (unparsable text, a null body, JSON
\* that is not an object) gets the InvalidPayload rejection (400), and
\* nothing is persisted.
C6_InvalidPayloadRejected ==
    \A w \in Done :
        (~IsJsonObject(dict_get(workers[w].event, "body", PyNone)))
        => /\ workers[w].response.statusCode = 400
           /\ ErrorOf(w) = InvalidPayload
           /\ workers[w].puts = 0

\* The item of the table under the key of item i, if any.
Stored(i) == {r \in table : r.id = i.id /\ r.timestamp = i.timestamp}

\* C7: the handler answers 200 exactly when its put was accepted, and the
\* id and timestamp of the acknowledgment are the key of the item that
\* this invocation wrote.
C7_AckIffWritten ==
    \A w \in Done :
        /\ workers[w].response.statusCode = 200 <=> workers[w].putOk
        /\ workers[w].response.statusCode = 200 =>
               /\ workers[w].response.body.id = workers[w].item.id
               /\ workers[w].response.body.timestamp = workers[w].item.timestamp
               /\ Stored(workers[w].item) = {workers[w].item}

\* C7 witness: an invocation has been acknowledged with 200 some time after
\* it took its timestamp.
C7_Witness ==
    \E w \in Done :
        /\ workers[w].putOk
        /\ workers[w].response.statusCode = 200
        /\ workers[w].response.body.timestamp < now

\* C9: every accepted put adds an item of its own: the table holds as many
\* items as puts were accepted, no two items share an id, and an item's
\* timestamp is the clock at the time its invocation was processed.
C9_OneRecordPerInvocation ==
    /\ Cardinality(table) = okPuts
    /\ \A r1, r2 \in table : r1.id = r2.id => r1 = r2
    /\ \A w \in Done :
           workers[w].putOk =>
               /\ workers[w].item \in table
               /\ workers[w].item.timestamp = workers[w].startedAt

\* C9 witness: two invocations with the same event, processed in the same
\* second and in flight together, have each left an item of their own.
C9_Witness ==
    /\ Cardinality(table) = 2
    /\ \E w1, w2 \in Done :
           /\ w1 # w2
           /\ workers[w1].event = workers[w2].event
           /\ workers[w1].startedAt = workers[w2].startedAt
           /\ workers[w1].putOk /\ workers[w2].putOk
           /\ workers[w1].item.id # workers[w2].item.id

\* C10: when the put fails the handler answers 500, has called put_item
\* once and not again, and the table holds no item of that invocation.
C10_FailedPutIsReported ==
    \A w \in Workers :
        workers[w].pc # "idle" =>
            /\ workers[w].puts <= 1
            /\ workers[w].puts = 1 /\ ~workers[w].putOk =>
                   /\ workers[w].pc = "done"
                   /\ workers[w].response.statusCode = 500
                   /\ ErrorOf(w) \in {"Database error", "Internal server error"}
                   /\ \A r \in table : r.id # workers[w].item.id

\* C10 witness: a put has raised a ClientError and the invocation has ended
\* with the 'Database error' response.
C10_Witness ==
    \E w \in Done :
        /\ workers[w].puts = 1
        /\ ~workers[w].putOk
        /\ workers[w].response.statusCode = 500
        /\ ErrorOf(w) = "Database error"

(***************************************************************************)
(* Properties of the write path, checked under Spec.                       *)
(***************************************************************************)
ViaGateway == {w \in Workers : workers[w].pc # "idle" /\ workers[w].via.lead = "Bearer "}

\* C2: a request whose token has its exp in the past when the request
\* arrives is rejected and writes no record.
C2_ExpiredTokenWritesNothing ==
    \A w \in ViaGateway :
        ~TokenExpiredAt(workers[w].via.rest, workers[w].startedAt)

\* C8: the record of an accepted request carries the body's userId,
\* eventType ('unknown' when the body has none) and data, and the sub and
\* email claims of the request's token as authenticatedUser and userEmail
\* ('' for a claim the token does not have); userId and authenticatedUser
\* are kept apart.
C8_RecordFields ==
    \A w \in ViaGateway :
        (workers[w].pc = "done" /\ workers[w].putOk) =>
            \E r \in table :
                LET body == workers[w].event.body.doc.d
                    claims == workers[w].via.rest.payload
                IN  /\ r.id = workers[w].response.body.id
                    /\ r.timestamp = workers[w].response.body.timestamp
                    /\ r.userId = body.userId
                    /\ r.eventType = IF "eventType" \in DOMAIN body
                                     THEN body.eventType ELSE "unknown"
                    /\ r.data = body.data
                    /\ r.authenticatedUser = claims.sub
                    /\ r.userEmail = IF "email" \in DOMAIN claims
                                     THEN claims.email ELSE ""

\* C8 witness: a record has been written for a body without eventType whose
\* userId is not the token's subject.
C8_Witness ==
    \E w \in ViaGateway :
        /\ workers[w].pc = "done"
        /\ workers[w].putOk
        /\ "eventType" \notin DOMAIN workers[w].event.body.doc.d
        /\ \E r \in table :
               /\ r.id = workers[w].item.id
               /\ r.userId # r.authenticatedUser
               /\ r.authenticatedUser = workers[w].via.rest.payload.sub
               /\ r.eventType = "unknown"

(***************************************************************************)
(* The weekly summary (src/python/lambda/weekly_summary_handler.py).       *)
(*                                                                         *)
(* A dict whose insertion order matters (user_stats, event_stats) is the   *)
(* sequence of its items, <<key, value>>, in insertion order.  A datetime  *)
(* is the clock value; a day has MinutesPerDay clock units.                *)
(***************************************************************************)
MinutesPerDay == 1440

\* timedelta(days=7)
window_days == 7

\* The limit of both top lists.
top_limit == 10

isoformat(t) == <<"iso", t>>

\* timestamp.strftime("%Y-%m-%d"): the day, without the time of day.
strftime_date(t) == t \div MinutesPerDay

\* stats[k] = stats.get(k, 0) + 1
stats_incr(stats, k) ==
    IF \E i \in DOMAIN stats : stats[i][1] = k
    THEN [i \in DOMAIN stats |->
             IF stats[i][1] = k THEN <<k, stats[i][2] + 1>> ELSE stats[i]]
    ELSE Append(stats, <<k, 1>>)

\* Python truth of a userId value: None and the empty string are false.
truthy(v) == v # None /\ v # ""

RECURSIVE process_items(_, _, _)
process_items(items, user_stats, event_stats) ==
    IF items = <<>>
    THEN [user_stats |-> user_stats, event_stats |-> event_stats]
    ELSE LET item == Head(items)
             user_id == dict_get(item, "userId", None)
             event_type == dict_get(item, "eventType", "unknown")
         IN  process_items(Tail(items),
                           IF truthy(user_id)
                           THEN stats_incr(user_stats, user_id)
                           ELSE user_stats,
                           stats_incr(event_stats, event_type))

\* A sort that puts a later entry ahead of the earlier ones of its count.
insert_desc_ties_reversed(sorted, x) ==
    LET ahead == {i \in DOMAIN sorted : sorted[i][2] > x[2]}
        n == Cardinality(ahead)
    IN  SubSeq(sorted, 1, n) \o <<x>> \o SubSeq(sorted, n + 1, Len(sorted))

\* One step of a stable sort by count, descending: x goes behind every
\* entry whose count is not smaller.
insert_desc(sorted, x) ==
    LET ahead == {i \in DOMAIN sorted : sorted[i][2] >= x[2]}
        n == Cardinality(ahead)
    IN  SubSeq(sorted, 1, n) \o <<x>> \o SubSeq(sorted, n + 1, Len(sorted))

RECURSIVE sorted_desc(_)
sorted_desc(items) ==
    IF items = <<>>
    THEN <<>>
    ELSE insert_desc(sorted_desc(SubSeq(items, 1, Len(items) - 1)), items[Len(items)])

Min(a, b) == IF a <= b THEN a ELSE b

Max(a, b) == IF a >= b THEN a ELSE b

\* sorted_items[:limit]; a negative limit counts from the end.
take(seq, limit) ==
    IF limit >= 0
    THEN SubSeq(seq, 1, Min(limit, Len(seq)))
    ELSE SubSeq(seq, 1, Max(Len(seq) + limit, 0))

get_top_items(stats_dict, limit) ==
    LET sorted_items == sorted_desc(stats_dict)
        first_items == take(sorted_items, limit)
    IN  [i \in DOMAIN first_items |->
            [name |-> first_items[i][1], count |-> first_items[i][2]]]

(***************************************************************************)
(* table.scan, as DynamoDB serves it.  The table is read in a fixed order  *)
(* of the primary key; a request evaluates some items behind               *)
(* ExclusiveStartKey, at least one while there are any, and returns those  *)
(* that pass the filter, projected.  A response that stopped short of the  *)
(* end carries the key of the last evaluated item as LastEvaluatedKey; a   *)
(* response that stopped exactly at the end may carry it too.              *)
(***************************************************************************)
NoKey == [none |-> TRUE]

primary_key(item) == [id |-> item.id, timestamp |-> item.timestamp]

key_before(a, b) == a.id < b.id \/ (a.id = b.id /\ a.timestamp < b.timestamp)

RECURSIVE scan_order(_)
scan_order(tbl) ==
    IF tbl = {}
    THEN <<>>
    ELSE LET first == CHOOSE r \in tbl :
                          \A q \in tbl \ {r} : key_before(primary_key(r), primary_key(q))
         IN  <<first>> \o scan_order(tbl \ {first})

behind(tbl, ExclusiveStartKey) ==
    IF ExclusiveStartKey = NoKey
    THEN tbl
    ELSE {r \in tbl : key_before(ExclusiveStartKey, primary_key(r))}

\* FilterExpression, line 126.
filter_expression(item, start_timestamp, end_timestamp) ==
    /\ "userId" \in DOMAIN item
    /\ start_timestamp <= item.timestamp
    /\ item.timestamp <= end_timestamp

\* ProjectionExpression="userId, eventType, #ts"
projection(item) ==
    [a \in DOMAIN item \cap {"userId", "eventType", "timestamp"} |-> item[a]]

RECURSIVE select(_, _, _)
select(items, start_timestamp, end_timestamp) ==
    IF items = <<>>
    THEN <<>>
    ELSE (IF filter_expression(Head(items), start_timestamp, end_timestamp)
          THEN <<projection(Head(items))>>
          ELSE <<>>) \o select(Tail(items), start_timestamp, end_timestamp)

table_scan(tbl, start_timestamp, end_timestamp, ExclusiveStartKey, evaluate, truncated) ==
    LET rest == scan_order(behind(tbl, ExclusiveStartKey))
        evaluated == SubSeq(rest, 1, evaluate)
        Items == select(evaluated, start_timestamp, end_timestamp)
    IN  IF truncated
        THEN [Items |-> Items,
              LastEvaluatedKey |-> primary_key(evaluated[Len(evaluated)])]
        ELSE [Items |-> Items]

\* What one request may evaluate, and whether its response may carry a
\* LastEvaluatedKey, with `rest` items behind the start key and pages of at
\* most `limit` evaluated items.
ScanChoices(rest, limit) ==
    IF rest = 0
    THEN {[evaluate |-> 0, truncated |-> FALSE]}
    ELSE {[evaluate |-> n, truncated |-> TRUE] : n \in 1..Min(rest, limit)}
         \cup (IF rest <= limit THEN {[evaluate |-> rest, truncated |-> FALSE]} ELSE {})

(***************************************************************************)
(* weekly_summary_handler.handler and scan_table, cut at the calls to      *)
(* DynamoDB and to S3.                                                     *)
(***************************************************************************)
NoResult == [none |-> TRUE]

\* Lines 45-48 and 118-120: the window, and the empty counters.
agg_begin(t) ==
    [pc |-> "scan",
     end_time |-> t,
     start_time |-> t - window_days * MinutesPerDay,
     start_timestamp |-> t - window_days * MinutesPerDay,
     end_timestamp |-> t,
     response |-> NoResponse,
     total_count |-> 0,
     user_stats |-> <<>>,
     event_stats |-> <<>>,
     result |-> NoResult]

\* The scan as it would be if every request started from the beginning.
exclusive_start_key_none(response) == NoKey

\* The first request has no ExclusiveStartKey (lines 123-131); a later one
\* has the LastEvaluatedKey of the response before it (line 149).
exclusive_start_key(response) ==
    IF response = NoResponse THEN NoKey ELSE response.LastEvaluatedKey

\* Line 139: the loop goes on while the response has a LastEvaluatedKey.
scan_continues(response) == "LastEvaluatedKey" \in DOMAIN response

\* The counters as they would be if each page replaced the running total.
scan_accumulate_last_page(st, response) ==
    LET items == response.Items
        stats == process_items(items, st.user_stats, st.event_stats)
    IN  [st EXCEPT !.response = response,
                   !.user_stats = stats.user_stats,
                   !.event_stats = stats.event_stats,
                   !.total_count = Len(items),
                   !.pc = IF scan_continues(response) THEN "scan" ELSE "upload"]

\* Lines 134-136 and 152-154: a page is processed and counted; after the
\* last page scan_table returns and the handler goes on to the upload.
scan_accumulate(st, response) ==
    LET items == response.Items
        stats == process_items(items, st.user_stats, st.event_stats)
    IN  [st EXCEPT !.response = response,
                   !.user_stats = stats.user_stats,
                   !.event_stats = stats.event_stats,
                   !.total_count = @ + Len(items),
                   !.pc = IF scan_continues(response) THEN "scan" ELSE "upload"]

\* Lines 60-76.
build_summary(st) ==
    [generated_at |-> isoformat(st.end_time),
     period |-> [start |-> isoformat(st.start_time), end |-> isoformat(st.end_time)],
     statistics |-> [total_items |-> st.total_count,
                     unique_users |-> Len(st.user_stats),
                     unique_event_types |-> Len(st.event_stats)],
     top_users |-> get_top_items(st.user_stats, top_limit),
     top_event_types |-> get_top_items(st.event_stats, top_limit),
     daily_breakdown |-> EmptyDict]

\* A key that carries the time of day as well as the date.
s3_key_to_the_minute(timestamp) == <<"summaries/weekly-summary-", timestamp, ".json">>

\* Lines 211-212.
s3_key(timestamp) == <<"summaries/weekly-summary-", strftime_date(timestamp), ".json">>

\* The put_object request of lines 215-225.
upload_summary_to_s3(summary, timestamp) ==
    [Key |-> s3_key(timestamp),
     Body |-> summary,
     ContentType |-> "application/json",
     Metadata |-> [generated_at |-> isoformat(timestamp),
                   total_items |-> summary.statistics.total_items]]

\* s3.put_object: the object replaces the one the bucket has under the Key.
put_object(bkt, object) == {o \in bkt : o.Key # object.Key} \cup {object}

\* Lines 89-97.
agg_success(st, summary, key) ==
    [statusCode |-> 200,
     body |-> [message |-> "Summary generated successfully",
               total_items |-> st.total_count,
               s3_key |-> key,
               summary |-> summary]]

\* Lines 99-104.
agg_failure == [statusCode |-> 500, body |-> [error |-> "Failed to generate summary"]]

(***************************************************************************)
(* How an invocation ends.  A ClientError is logged and raised again by    *)
(* the inner handlers (lines 55-57, 84-86); it and every other exception   *)
(* then reach `except Exception` (line 99), which returns agg_failure.     *)
(***************************************************************************)
agg_end(st, exception, value) ==
    [st EXCEPT !.pc = "done",
               !.result = IF exception = None
                          THEN [kind |-> "return", value |-> value]
                          ELSE [kind |-> "return", value |-> agg_failure]]

ServiceOutcomes == {"ok", "ClientError", "Exception"}

(***************************************************************************)
(* The weekly summary on its own: the table holds any part of a pool of    *)
(* records placed around the window of the first run, the schedule (or an  *)
(* operator) invokes the handler, one invocation at a time.                *)
(***************************************************************************)
AggEpoch == (window_days + 1) * MinutesPerDay

RecordPool ==
    {[id |-> 1, timestamp |-> AggEpoch - window_days * MinutesPerDay,
      userId |-> "u1", eventType |-> "click", data |-> "{x:1}"],
     [id |-> 2, timestamp |-> AggEpoch,
      userId |-> "u2", eventType |-> "view", data |-> "{x:1}"],
     [id |-> 3, timestamp |-> AggEpoch - 1,
      userId |-> "u1", data |-> "{x:1}"],
     [id |-> 4, timestamp |-> AggEpoch - 2,
      eventType |-> "click", data |-> "{x:1}"],
     [id |-> 5, timestamp |-> AggEpoch - window_days * MinutesPerDay - 1,
      userId |-> "u2", eventType |-> "click", data |-> "{x:1}"],
     [id |-> 6, timestamp |-> AggEpoch + 1,
      userId |-> None, eventType |-> "view", data |-> "{x:1}"]}

InitAgg ==
    /\ now = AggEpoch
    /\ ssmValue = "k1"
    /\ ssmCalls = 0
    /\ jwt_secret_cache = None
    /\ lastAuth = NoAuth
    /\ authCache = [h \in GatewayHeaders |-> NoPolicy]
    /\ workers = [w \in Workers |-> Idle]
    /\ table \in SUBSET RecordPool
    /\ uuids = 0
    /\ invocations = 0
    /\ okPuts = 0
    /\ agg = AggIdle
    /\ bucket = {}
    /\ runs = 0
    /\ lastReport = EmptyDict
    /\ cli = NoCli
    /\ top = NoCall

NoWrites == [writes |-> 0]

\* What the model remembers of a run besides the handler's own variables:
\* the scan requests made, the ExclusiveStartKey of the last one, the items
\* the responses carried, the exception a call raised, the objects put.
AggRun(h) ==
    h @@ [requests |-> 0, sent |-> NoKey, paged |-> 0, failed |-> None, uploaded |-> 0]

AggInvoke ==
    /\ agg.pc = "idle"
    /\ runs < MaxRuns
    /\ runs' = runs + 1
    /\ agg' = AggRun(agg_begin(now))
    /\ UNCHANGED <<now, authVars, authCache, ingestVars, bucket, lastReport, toolVars>>

\* One table.scan request of scan_table and what the handler does with the
\* response, or with the exception.
AggScan ==
    /\ agg.pc = "scan"
    /\ \E outcome \in ServiceOutcomes :
         LET key == exclusive_start_key(agg.response)
             rest == Cardinality(behind(table, key))
         IN  IF outcome = "ok"
             THEN \E c \in ScanChoices(rest, PageLimit) :
                    LET response == table_scan(table, agg.start_timestamp, agg.end_timestamp,
                                               key, c.evaluate, c.truncated)
                    IN  agg' = [scan_accumulate(agg, response) EXCEPT
                                    !.requests = @ + 1,
                                    !.sent = key,
                                    !.paged = @ + Len(response.Items)]
             ELSE agg' = [agg_end(agg, outcome, NoResult) EXCEPT
                              !.requests = @ + 1,
                              !.sent = key,
                              !.failed = outcome]
    /\ UNCHANGED <<now, authVars, authCache, ingestVars, bucket, runs, lastReport, toolVars>>

\* Lines 60-97: the summary, the put_object and the return.
AggUpload ==
    /\ agg.pc = "upload"
    /\ \E outcome \in ServiceOutcomes :
         LET summary == build_summary(agg)
             object == upload_summary_to_s3(summary, agg.end_time)
         IN  IF outcome = "ok"
             THEN /\ bucket' = put_object(bucket, object)
                  /\ agg' = [agg_end(agg, None, agg_success(agg, summary, object.Key))
                                EXCEPT !.uploaded = @ + 1]
                  /\ lastReport' = [d \in DOMAIN lastReport \cup {strftime_date(agg.end_time)} |->
                                       IF d = strftime_date(agg.end_time)
                                       THEN [summary |-> summary,
                                             writes |-> dict_get(lastReport, d, NoWrites).writes + 1]
                                       ELSE lastReport[d]]
             ELSE /\ agg' = [agg_end(agg, outcome, NoResult) EXCEPT !.failed = outcome]
                  /\ UNCHANGED <<bucket, lastReport>>
    /\ UNCHANGED <<now, authVars, authCache, ingestVars, runs, toolVars>>

\* The invocation is over.
AggReturn ==
    /\ agg.pc = "done"
    /\ agg' = AggIdle
    /\ UNCHANGED <<now, authVars, authCache, ingestVars, bucket, runs, lastReport, toolVars>>

\* Half a day passes.
AggTick ==
    /\ Advance(AggTickStep, AggEpoch + MaxAggTicks * AggTickStep)
    /\ UNCHANGED <<authVars, authCache, ingestVars, aggVars, toolVars>>

NextAgg == AggTick \/ AggInvoke \/ AggScan \/ AggUpload \/ AggReturn

SpecAgg == InitAgg /\ [][NextAgg]_vars

(***************************************************************************)
(* Claims about the weekly summary.                                        *)
(***************************************************************************)
\* The run has ended and a scan or the put_object raised during it.
RunFailed == agg.pc = "done" /\ agg.failed # None

\* C11: when a scan of the table or the write to the bucket fails during a
\* run, the invocation does not end as a normal return (the scheduler sees a
\* failed run), and the run has written no object to the bucket.
C11_FailedRunIsReportedFailed ==
    RunFailed => agg.result.kind # "return" /\ agg.uploaded = 0

\* The records of the table inside the window of the run in flight.
InWindow == {r \in table : agg.start_timestamp <= r.timestamp /\ r.timestamp <= agg.end_timestamp}

HasSubject(r) == "userId" \in DOMAIN r /\ truthy(r.userId)

EventTypeOf(r) == IF "eventType" \in DOMAIN r THEN r.eventType ELSE "unknown"

\* The run has ended with a report.
RunSucceeded == agg.pc = "done" /\ agg.failed = None

Report == agg.result.value.body.summary

\* What a counter holds for a key; 0 for a key it does not have.
Tally(stats, k) ==
    IF \E i \in DOMAIN stats : stats[i][1] = k
    THEN (CHOOSE p \in {stats[i] : i \in DOMAIN stats} : p[1] = k)[2]
    ELSE 0

\* C12: the statistics of a report are computed over exactly the records of
\* the table whose timestamp lies in [window_start, window_end], the window
\* being 7 days long: total_items is their number, unique_users the number
\* of their distinct userIds, unique_event_types the number of their
\* distinct event types.
C12_StatisticsOverWindow ==
    RunSucceeded =>
        /\ agg.start_timestamp = agg.end_timestamp - 7 * MinutesPerDay
        /\ Report.statistics.total_items = Cardinality(InWindow)
        /\ Report.statistics.unique_users =
               Cardinality({r.userId : r \in {q \in InWindow : HasSubject(q)}})
        /\ Report.statistics.unique_event_types =
               Cardinality({EventTypeOf(r) : r \in InWindow})

\* C13: when the scan is over, an in-window record without userId has been
\* left out of the per-subject tally and counted in total_count and in the
\* per-event-type tally, under its eventType or under "unknown".
C13_NoSubjectStillCounted ==
    agg.pc = "upload" =>
        /\ agg.total_count = Cardinality(InWindow)
        /\ \A r \in InWindow :
               Tally(agg.event_stats, EventTypeOf(r)) =
                   Cardinality({q \in InWindow : EventTypeOf(q) = EventTypeOf(r)})
        /\ \A r \in InWindow :
               HasSubject(r) =>
                   Tally(agg.user_stats, r.userId) =
                       Cardinality({q \in InWindow : HasSubject(q) /\ q.userId = r.userId})
        /\ \A i \in DOMAIN agg.user_stats :
               \E r \in InWindow : HasSubject(r) /\ r.userId = agg.user_stats[i][1]

(***************************************************************************)
(* get_top_items on its own: a call with any counter dict over three keys  *)
(* (in any insertion order, with any counts up to MaxCount) and any limit  *)
(* up to MaxLimit.                                                         *)
(***************************************************************************)
TopKeys == {"A", "B", "C"}

\* The dicts: sequences of <<key, count>> items, no key twice.
StatsDicts ==
    UNION {{d \in [1..n -> TopKeys \X (1..MaxCount)] :
               \A i, j \in 1..n : i # j => d[i][1] # d[j][1]} : n \in 0..Cardinality(TopKeys)}

InitTop ==
    /\ now = 0
    /\ ssmValue = "k1"
    /\ ssmCalls = 0
    /\ jwt_secret_cache = None
    /\ lastAuth = NoAuth
    /\ authCache = [h \in GatewayHeaders |-> NoPolicy]
    /\ workers = [w \in Workers |-> Idle]
    /\ table = {}
    /\ uuids = 0
    /\ invocations = 0
    /\ okPuts = 0
    /\ agg = AggIdle
    /\ bucket = {}
    /\ runs = 0
    /\ lastReport = EmptyDict
    /\ cli = NoCli
    /\ top \in {[pc |-> "call", stats_dict |-> d, limit |-> n] :
                   d \in StatsDicts, n \in 0..MaxLimit}

TopCall ==
    /\ top.pc = "call"
    /\ top' = [pc |-> "done", stats_dict |-> top.stats_dict, limit |-> top.limit,
               result |-> get_top_items(top.stats_dict, top.limit)]
    /\ UNCHANGED <<now, authVars, authCache, ingestVars, aggVars, cli>>

NextTop == TopCall

SpecTop == InitTop /\ [][NextTop]_vars

\* The place of a key in the dict: when the scan first met it.
FirstMet(stats, k) == CHOOSE i \in DOMAIN stats : stats[i][1] = k

\* C14: get_top_items returns min(N, number of keys) entries, in
\* non-increasing order of count; no key left out has a greater count than a
\* returned one; entries of equal count stand in the order in which their
\* keys were first met, and a key left out with the count of a returned one
\* was met later; every entry is a key of the dict with its count.  For
\* {A: 5, B: 3, C: 5} and N = 2 the result is A, then C.
C14_TopItemsRanked ==
    top.pc = "done" =>
        LET stats == top.stats_dict
            result == top.result
            returned == {result[i].name : i \in DOMAIN result}
            left_out == {stats[i] : i \in DOMAIN stats} \ {p \in {stats[i] : i \in DOMAIN stats} : p[1] \in returned}
        IN  /\ Len(result) = Min(top.limit, Len(stats))
            /\ Cardinality(returned) = Len(result)
            /\ \A i \in DOMAIN result : Tally(stats, result[i].name) = result[i].count
            /\ \A i, j \in DOMAIN result : i < j => result[i].count >= result[j].count
            /\ \A p \in left_out : \A i \in DOMAIN result : p[2] <= result[i].count
            /\ \A i, j \in DOMAIN result :
                   i < j /\ result[i].count = result[j].count =>
                       FirstMet(stats, result[i].name) < FirstMet(stats, result[j].name)
            /\ \A p \in left_out : \A i \in DOMAIN result :
                   p[2] = result[i].count =>
                       FirstMet(stats, result[i].name) < FirstMet(stats, p[1])
            /\ (stats = <<<<"A", 5>>, <<"B", 3>>, <<"C", 5>>>> /\ top.limit = 2 =>
                   result = <<[name |-> "A", count |-> 5], [name |-> "C", count |-> 5]>>)

C14_Witness ==
    /\ top.pc = "done"
    /\ top.stats_dict = <<<<"A", 5>>, <<"B", 3>>, <<"C", 5>>>>
    /\ top.limit = 2
    /\ top.result = <<[name |-> "A", count |-> 5], [name |-> "C", count |-> 5]>>

\* The key the claim gives to the report of a window ending on day d.
ReportKey(d) == <<"summaries/weekly-summary-", d, ".json">>

\* C15: a run that succeeds has put exactly one object, under the key of its
\* window end date, and a run puts none before it succeeds; the bucket holds
\* exactly one object for each end date that had a successful run, and its
\* body is the summary of the last of them; no step removes a key from the
\* bucket, and a step adds at most one.
C15_OneReportPerEndDate ==
    /\ [](/\ RunSucceeded =>
                /\ agg.uploaded = 1
                /\ agg.result.value.body.s3_key = ReportKey(agg.end_time \div MinutesPerDay)
          /\ agg.pc \in {"scan", "upload"} => agg.uploaded = 0
          /\ Cardinality(bucket) = Cardinality(DOMAIN lastReport)
          /\ \A d \in DOMAIN lastReport :
                 \E o \in bucket : o.Key = ReportKey(d) /\ o.Body = lastReport[d].summary)
    /\ [][/\ \A o \in bucket : \E n \in bucket' : n.Key = o.Key
          /\ Cardinality(bucket') <= Cardinality(bucket) + 1
          /\ bucket' # bucket => agg'.pc = "done" /\ agg'.failed = None]_vars

\* The second successful run of a day has replaced the report of the first.
C15_Witness ==
    /\ RunSucceeded
    /\ lastReport[strftime_date(agg.end_time)].writes = 2
    /\ Cardinality(bucket) = 1
    /\ \E o \in bucket : o.Body.generated_at = isoformat(agg.end_time)

\* The Lambda service runs an invocation to its end: a step of the handler
\* that can be taken is taken.
SpecAggFair ==
    /\ SpecAgg
    /\ WF_vars(AggScan)
    /\ WF_vars(AggUpload)
    /\ WF_vars(AggReturn)

RECURSIVE SumCounts(_)
SumCounts(stats) == IF stats = <<>> THEN 0 ELSE Head(stats)[2] + SumCounts(Tail(stats))

\* The records of the table that the scan of the run in flight selects.
Selected == {r \in table : filter_expression(r, agg.start_timestamp, agg.end_timestamp)}

\* C16: the first scan request carries no start key and every later one the
\* LastEvaluatedKey of the response before it; the loop is inside only with
\* a response that carries one and is left at the first response without
\* one; every item a response carried is counted once, so that a finished
\* scan has counted each selected record of the table once; and a scan that
\* has begun comes to an end.
C16_ScanDrains ==
    /\ [][agg.pc = "scan" /\ agg'.requests = agg.requests + 1 =>
              agg'.sent = IF agg.requests = 0 THEN NoKey ELSE agg.response.LastEvaluatedKey]_vars
    /\ [](/\ agg.pc = "scan" /\ agg.requests > 0 => "LastEvaluatedKey" \in DOMAIN agg.response
          /\ agg.pc = "upload" => "LastEvaluatedKey" \notin DOMAIN agg.response
          /\ agg.pc \in {"scan", "upload"} =>
                 /\ agg.total_count = agg.paged
                 /\ SumCounts(agg.event_stats) = agg.paged
          /\ agg.pc = "upload" => agg.total_count = Cardinality(Selected))
    /\ (agg.pc = "scan" ~> agg.pc # "scan")

\* A scan of three requests has ended: two responses carried a key, the
\* third none.
C16_Witness ==
    /\ agg.pc = "upload"
    /\ agg.requests = 3
    /\ agg.sent # NoKey
    /\ agg.total_count = 3

(***************************************************************************)
(* The ingest handler and the weekly summary against the same table: well  *)
(* formed requests come in while summaries run.                            *)
(***************************************************************************)
PipelineEvents ==
    {[requestContext |-> [authorizer |-> AuthorizerContext], body |-> PyStr(doc)] :
        doc \in {JDict([userId |-> "u1", data |-> "{x:1}"]),
                 JDict([userId |-> "u1", eventType |-> "click", data |-> "{x:1}"])}}

PipelineInvoke == IngestInvokeOf(PipelineEvents)

\* Time passes, once, between the requests and the steps of the summary.
PipelineTick ==
    /\ Advance(MaxIngestTime, MaxIngestTime)
    /\ UNCHANGED <<authVars, authCache, ingestVars, aggVars, toolVars>>

\* One summary runs while the requests come in.
PipelineAggInvoke == runs = 0 /\ AggInvoke

NextPipeline ==
    \/ PipelineTick
    \/ PipelineInvoke
    \/ IngestPut
    \/ IngestReturn
    \/ PipelineAggInvoke
    \/ AggScan
    \/ AggUpload
    \/ AggReturn

SpecPipeline == Init /\ [][NextPipeline]_vars

SameKey(a, b) == a.id = b.id /\ a.timestamp = b.timestamp

\* C17: a record of the table is in the table after every step, as it was;
\* the table changes only by a put of the ingest handler, which adds one
\* record whose (id, timestamp) no record had; no step of the weekly summary
\* changes the table.
C17_RecordsAreImmutable ==
    [][/\ \A r \in table : r \in table'
       /\ table' # table =>
              \E w \in Workers :
                  /\ workers[w].pc = "put"
                  /\ table' = table \cup {workers[w].item}
                  /\ \A r \in table : ~SameKey(r, workers[w].item)
       /\ agg' # agg => table' = table]_vars

\* A summary has scanned a record, and a second record has been put since
\* the scan began, while it was in flight.
C17_Witness ==
    /\ agg.pc \in {"scan", "upload"}
    /\ agg.requests > 0
    /\ agg.paged > 0
    /\ Cardinality(table) = 2
    /\ \E r \in table : r.timestamp > agg.end_timestamp

(***************************************************************************)
(* Claims about the ingest handler's responses.                            *)
(***************************************************************************)
\* C18: whatever the event and whatever put_item does, an invocation that
\* has ended has returned a response, not raised: its status is 200, 400 or
\* 500; a 400 or 500 body has an error field, a 200 body has message, id and
\* timestamp.  A worker is idle, at the put, or done.
C18_AlwaysAResponse ==
    \A w \in Workers :
        /\ workers[w].pc \in {"idle", "put", "done"}
        /\ workers[w].pc = "done" =>
               LET response == workers[w].response
               IN  /\ DOMAIN response = {"statusCode", "headers", "body"}
                   /\ response.statusCode \in {200, 400, 500}
                   /\ response.statusCode \in {400, 500} => "error" \in DOMAIN response.body
                   /\ response.statusCode = 200 =>
                          {"message", "id", "timestamp"} \subseteq DOMAIN response.body

\* One invocation got an event without a usable requestContext, the other
\* an exception of put_item that is no ClientError; both answered 500.
C18_Witness ==
    /\ workers[1].pc = "done"
    /\ workers[1].event = [requestContext |-> PyNone]
    /\ workers[1].response.statusCode = 500
    /\ workers[2].pc = "done"
    /\ workers[2].puts = 1
    /\ ~workers[2].putOk
    /\ workers[2].response.body = [error |-> "Internal server error"]

(***************************************************************************)
(* The token generator (generate_jwt.py): the command line and             *)
(* generate_token.  Times are in clock units; an hour has MinutesPerHour.  *)
(***************************************************************************)
MinutesPerHour == 60

\* The default of --expiry.
default_expiry == 24

\* Lines 47-64.  An absent --email or --scope is None; `if email:` leaves
\* out an empty one as well.
generate_token(secret_key, user_id, email, scope, expiry_hours, t) ==
    LET payload == [sub |-> user_id, iat |-> t, exp |-> t + expiry_hours * MinutesPerHour]
        with_email == IF truthy(email) THEN payload @@ [email |-> email] ELSE payload
        with_scope == IF truthy(scope) THEN with_email @@ [scope |-> scope] ELSE with_email
    IN  [signedWith |-> secret_key, form |-> "jwt", payload |-> with_scope]

\* argparse, lines 68-82: --expiry is any int (type=int, no range), 24 when
\* not given.
ExpiryValues == (-MaxExpiry..MaxExpiry) \cup {default_expiry}

CliArgs ==
    [environment : {None, "dev"},
     secret : {None, "k1"},
     user_id : {"u1", "u2"},
     email : {None, "a@x"},
     scope : {None, "read"},
     expiry : ExpiryValues]

NoToken == [none |-> TRUE]

\* main, lines 84-128: the secret comes from AWS when --environment is
\* given (get_secret_from_aws raises when the lookup fails), else from
\* --secret; without either main returns 1.
main(args, ssm, awsOk, t) ==
    IF truthy(args.environment) /\ ~awsOk
    THEN [pc |-> "done", args |-> args, raised |-> "Exception", exit |-> 1,
          token |-> NoToken]
    ELSE IF ~truthy(args.environment) /\ ~truthy(args.secret)
    THEN [pc |-> "done", args |-> args, raised |-> None, exit |-> 1, token |-> NoToken]
    ELSE [pc |-> "done", args |-> args, raised |-> None, exit |-> 0,
          token |-> generate_token(IF truthy(args.environment) THEN ssm ELSE args.secret,
                                   args.user_id, args.email, args.scope, args.expiry, t)]

InitToken ==
    /\ now = 0
    /\ ssmValue = "k1"
    /\ ssmCalls = 0
    /\ jwt_secret_cache = None
    /\ lastAuth = NoAuth
    /\ authCache = [h \in GatewayHeaders |-> NoPolicy]
    /\ workers = [w \in Workers |-> Idle]
    /\ table = {}
    /\ uuids = 0
    /\ invocations = 0
    /\ okPuts = 0
    /\ agg = AggIdle
    /\ bucket = {}
    /\ runs = 0
    /\ lastReport = EmptyDict
    /\ cli \in {[pc |-> "args", args |-> a] : a \in CliArgs}
    /\ top = NoCall

CliMain ==
    /\ cli.pc = "args"
    /\ \E awsOk \in BOOLEAN : cli' = main(cli.args, ssmValue, awsOk, now)
    /\ UNCHANGED <<now, authVars, authCache, ingestVars, aggVars, top>>

NextToken == CliMain

SpecToken == InitToken /\ [][NextToken]_vars

\* C19: a token the command line has printed has exp > iat, exp being iat
\* plus --expiry hours, whatever integer --expiry was.
C19_ExpiryAfterIssue ==
    cli.pc = "done" /\ cli.exit = 0 =>
        /\ cli.token.payload.exp = cli.token.payload.iat + cli.args.expiry * 60
        /\ cli.token.payload.exp > cli.token.payload.iat

(***************************************************************************)
(* Claims about the figures of a report.                                   *)
(***************************************************************************)
RECURSIVE SumEntries(_)
SumEntries(entries) ==
    IF entries = <<>> THEN 0 ELSE Head(entries).count + SumEntries(Tail(entries))

\* The figures of a summary agree with each other.
Consistent(summary) ==
    LET statistics == summary.statistics
    IN  /\ statistics.unique_users <= statistics.total_items
        /\ statistics.unique_event_types <= statistics.total_items
        /\ Len(summary.top_users) <= Min(10, statistics.unique_users)
        /\ Len(summary.top_event_types) <= Min(10, statistics.unique_event_types)
        /\ \A i \in DOMAIN summary.top_users : summary.top_users[i].count >= 1
        /\ \A i \in DOMAIN summary.top_event_types : summary.top_event_types[i].count >= 1
        /\ SumEntries(summary.top_users) <= statistics.total_items
        /\ statistics.unique_event_types <= 10 =>
               SumEntries(summary.top_event_types) = statistics.total_items

\* C20: in the report of a run, and in every report in the bucket, the
\* per-event-type counts add up to total_items, the per-subject counts to at
\* most total_items, unique_users and unique_event_types are at most
\* total_items, and the top lists have at most min(10, unique) entries, each
\* with a count of at least 1.
C20_ReportFiguresAgree ==
    /\ RunSucceeded =>
           /\ SumCounts(agg.event_stats) = Report.statistics.total_items
           /\ SumCounts(agg.user_stats) <= Report.statistics.total_items
           /\ Consistent(Report)
    /\ \A o \in bucket : Consistent(o.Body)

\* A report made from several pages, with a record that has no subject to
\* count: the per-subject counts add up to less than total_items.
C20_Witness ==
    /\ RunSucceeded
    /\ agg.requests >= 2
    /\ Report.statistics.total_items >= 3
    /\ SumCounts(agg.user_stats) < Report.statistics.total_items
    /\ \E o \in bucket : o.Body = Report
====
